---- MODULE Spec2Model ----
(***************************************************************************)
(* Model of the batch rename pipeline of SmartPdfRename: the App           *)
(* component's state (files, config, isProcessing, directoryHandle), its   *)
(* handlers (selectFolder, clearFiles, setConfig, processFiles) and the    *)
(* pure helpers of utils/pdfProcessor.ts and services/aiService.ts.        *)
(*                                                                         *)
(* Strings are sequences of one-character strings.  An optional value is   *)
(* <<>> (undefined) or <<v>> (the value v).                                *)
(***************************************************************************)
EXTENDS Integers, Sequences, FiniteSets, TLC

VARIABLES
    files,            \* useState<PDFFile[]>           App.tsx:23
    config,           \* useState<RenameConfig>        App.tsx:24
    isProcessing,     \* useState(false)               App.tsx:29
    directoryHandle,  \* useState<...Handle | null>    App.tsx:30
    dir,              \* the picked directory: entry name -> content
    env,              \* import.meta.env: the providers that have a key
    run,              \* the processFiles invocation in flight (its closure and position)
    sf,               \* the selectFolder invocation in flight
    hist,             \* history of the current run (what it did, for the properties)
    pure              \* a call of a helper of utils/pdfProcessor.ts on its own

vars == <<files, config, isProcessing, directoryHandle, dir, env, run, sf, hist, pure>>

-----------------------------------------------------------------------------
(* Bounds of the model *)

MaxFiles == 3          \* PDF entries in the picked directory
MaxStarts == 3         \* selectFolder and processFiles invocations in one behaviour
MaxConfigChanges == 1  \* setConfig calls in one behaviour
MaxNameLen == 3        \* characters of a name handed to sanitizeFilename on its own
MaxTemplateTokens == 2 \* tokens of a template handed to applyTemplate on its own
MaxPayloadLen == 5     \* characters of a payload handed to parseSafeJSON on its own
MaxRetryFiles == 2     \* PDF entries in the directory of SpecRetry

-----------------------------------------------------------------------------
(* Optional values *)

None == <<>>
Some(v) == <<v>>
IsSome(o) == o # <<>>
Get(o) == o[1]

-----------------------------------------------------------------------------
(* Strings *)

StartsWith(s, p) == Len(s) >= Len(p) /\ SubSeq(s, 1, Len(p)) = p
EndsWith(s, p) == Len(s) >= Len(p) /\ SubSeq(s, Len(s) - Len(p) + 1, Len(s)) = p

\* String.prototype.toLowerCase on the letters the model uses
LowerChar(c) ==
    CASE c = "P" -> "p" [] c = "D" -> "d" [] c = "F" -> "f"
      [] c = "A" -> "a" [] c = "B" -> "b" [] OTHER -> c

toLowerCase(s) == [k \in 1..Len(s) |-> LowerChar(s[k])]

\* the white space String.prototype.trim removes, on the characters the model uses
IsSpace(c) == c \in {" ", "\t", "\n"}

\* String.prototype.trim
RECURSIVE TrimLeft(_)
TrimLeft(s) == IF s # <<>> /\ IsSpace(Head(s)) THEN TrimLeft(Tail(s)) ELSE s
RECURSIVE TrimRight(_)
TrimRight(s) ==
    IF s # <<>> /\ IsSpace(s[Len(s)]) THEN TrimRight(SubSeq(s, 1, Len(s) - 1)) ELSE s
trim(s) == TrimRight(TrimLeft(s))

\* GetSubstitution of String.prototype.replace for a pattern without capture
\* groups: "$$" is "$", "$&" the match, "$`" the text before the match, "$'"
\* the text after it; any other "$" is literal.
RECURSIVE GetSubstitution(_, _, _, _)
GetSubstitution(rep, matched, before, after) ==
    IF rep = <<>> THEN <<>>
    ELSE IF Head(rep) = "$" /\ Len(rep) >= 2 /\ rep[2] \in {"$", "&", "`", "'"}
         THEN (CASE rep[2] = "$" -> <<"$">>
                 [] rep[2] = "&" -> matched
                 [] rep[2] = "`" -> before
                 [] rep[2] = "'" -> after)
              \o GetSubstitution(SubSeq(rep, 3, Len(rep)), matched, before, after)
         ELSE <<Head(rep)>> \o GetSubstitution(Tail(rep), matched, before, after)

\* str.replace(/pat/g, rep) for a literal pattern: the matches are found left
\* to right in str, do not overlap, and the inserted text is not scanned again.
RECURSIVE ReplaceFrom(_, _, _, _)
ReplaceFrom(str, pos, pat, rep) ==
    IF pos > Len(str) THEN <<>>
    ELSE IF StartsWith(SubSeq(str, pos, Len(str)), pat)
         THEN GetSubstitution(rep, pat, SubSeq(str, 1, pos - 1),
                              SubSeq(str, pos + Len(pat), Len(str)))
              \o ReplaceFrom(str, pos + Len(pat), pat, rep)
         ELSE <<str[pos]>> \o ReplaceFrom(str, pos + 1, pat, rep)

ReplaceAll(str, pat, rep) == ReplaceFrom(str, 1, pat, rep)

\* Number.prototype.toString for the numbers the model uses: non-negative
\* with at most one decimal, held as a count of tenths. 42 prints as "42",
\* 42.5 as "42.5".
DigitChar(d) == <<"0", "1", "2", "3", "4", "5", "6", "7", "8", "9">>[d + 1]
Tenths(units, tenth) == units * 10 + tenth
RECURSIVE Digits(_)
Digits(n) ==
    IF n < 10 THEN <<DigitChar(n)>>
    ELSE Digits(n \div 10) \o <<DigitChar(n % 10)>>
NumberToString(n) ==
    Digits(n \div 10) \o (IF n % 10 = 0 THEN <<>> ELSE <<".", DigitChar(n % 10)>>)

\* ToString of a value handed to replace() as the replacement: undefined
\* becomes the text "undefined"
UndefinedText == <<"u", "n", "d", "e", "f", "i", "n", "e", "d">>
StringOrUndefined(o) == IF IsSome(o) THEN Get(o) ELSE UndefinedText

-----------------------------------------------------------------------------
(* utils/pdfProcessor.ts *)

ReservedChars == {"<", ">", ":", "\"", "/", "\\", "|", "?", "*"}

\* mutant of sanitizeFilename: the name is trimmed first and a reserved
\* character becomes a space
sanitizeFilenameSpace(name) ==
    LET t == trim(name)
    IN  [k \in 1..Len(t) |-> IF t[k] \in ReservedChars THEN " " ELSE t[k]]

\* mutant of sanitizeFilename: the pattern without the g flag, which replaces
\* the first reserved character only
sanitizeFilenameFirstOnly(name) ==
    LET R == {k \in 1..Len(name) : name[k] \in ReservedChars}
    IN  trim([k \in 1..Len(name) |->
                IF k \in R /\ \A j \in R : k <= j THEN "_" ELSE name[k]])

\* pdfProcessor.ts:26-28
sanitizeFilename(name) ==
    trim([k \in 1..Len(name) |-> IF name[k] \in ReservedChars THEN "_" ELSE name[k]])

TagDate == <<"{", "d", "a", "t", "e", "}">>
TagMerchant == <<"{", "m", "e", "r", "c", "h", "a", "n", "t", "}">>
TagInvoice == <<"{", "i", "n", "v", "o", "i", "c", "e", "}">>
TagMonth == <<"{", "m", "o", "n", "t", "h", "}">>
TagAmount == <<"{", "a", "m", "o", "u", "n", "t", "}">>
TagCurrency == <<"{", "c", "u", "r", "r", "e", "n", "c", "y", "}">>

\* info.amount.toString() throws a TypeError when amount is undefined, and every
\* property read throws when info is null
applyTemplateThrows(info) == info.type # "object" \/ ~IsSome(info.amount)

applyTemplate(template, info) ==
    LET r1 == ReplaceAll(template, TagDate, StringOrUndefined(info.date))
        r2 == ReplaceAll(r1, TagMerchant, StringOrUndefined(info.merchant))
        r3 == ReplaceAll(r2, TagInvoice, StringOrUndefined(info.invoice))
        r4 == ReplaceAll(r3, TagMonth, StringOrUndefined(info.month))
        r5 == ReplaceAll(r4, TagAmount, NumberToString(Get(info.amount)))
        r6 == ReplaceAll(r5, TagCurrency, StringOrUndefined(info.currency))
    IN  r6

DotPdf == <<".", "p", "d", "f">>

\* mutant of FinalName: the '.pdf' suffix is not enforced
FinalNameNoSuffix(cfg, info) ==
    LET rendered == applyTemplate(cfg.template, info)
    IN  IF cfg.sanitize THEN sanitizeFilename(rendered) ELSE rendered

\* mutant of FinalName: the suffix test without toLowerCase
FinalNameCaseSensitive(cfg, info) ==
    LET rendered == applyTemplate(cfg.template, info)
        baseNewName == IF cfg.sanitize THEN sanitizeFilename(rendered) ELSE rendered
    IN  IF EndsWith(baseNewName, DotPdf)
        THEN baseNewName
        ELSE baseNewName \o DotPdf

\* App.tsx:106-108
FinalName(cfg, info) ==
    LET rendered == applyTemplate(cfg.template, info)
        baseNewName == IF cfg.sanitize THEN sanitizeFilename(rendered) ELSE rendered
    IN  IF EndsWith(toLowerCase(baseNewName), DotPdf)
        THEN baseNewName
        ELSE baseNewName \o DotPdf

-----------------------------------------------------------------------------
(* types.ts and the values the environment supplies *)

Providers == {"glm", "gemini", "qwen"}    \* AIProvider, types.ts:2

\* the initial template, App.tsx:25
DefaultTemplate == TagDate \o <<"_">> \o TagMerchant \o <<"_">> \o TagAmount

\* texts the user types into the template input (App.tsx:207)
Templates == {DefaultTemplate, TagMerchant \o <<".", "P", "D", "F">>}

UndefinedInfo ==
    [type |-> "null", date |-> None, merchant |-> None, invoice |-> None,
     month |-> None, amount |-> None, currency |-> None]

InfoA ==
    [type |-> "object", date |-> Some(<<"0", "1", "0", "5">>),
     merchant |-> Some(<<"A", "c", "m", "e">>), invoice |-> Some(<<"x">>),
     month |-> Some(<<"0", "1">>), amount |-> Some(Tenths(42, 0)), currency |-> Some(<<"$">>)]

\* a JSON object that omits fields: JSON.parse returns it as it is
InfoB == [InfoA EXCEPT !.date = None, !.merchant = Some(<<"a">>), !.amount = Some(Tenths(0, 0))]
InfoEmpty == [UndefinedInfo EXCEPT !.type = "object"]

\* what JSON.parse can return for a provider response (aiService.ts:16)
ParsedValues == {InfoA, InfoB, InfoEmpty, UndefinedInfo}

\* the entries of the directory the user picks: name and content
LetterOf(k) == <<"a", "b", "c", "d", "e", "f">>[k]
NameOf(k) == <<LetterOf(k)>> \o (IF k = 1 THEN <<".", "P", "D", "F">> ELSE DotPdf)
ContentOf(k) == <<"c", LetterOf(k)>>
\* the second PDF of the directory is not a parseable PDF
CorruptContents == {ContentOf(2)}
EmptyContent == <<>>

\* import.meta.env holds every key, or none
EnvChoices == {Providers, {}}

InitialDir(n) == [k \in 1..n |-> [name |-> NameOf(k), content |-> ContentOf(k)]]

\* messages of the errors the steps throw; None is a thrown value without a message
ConvertErrors == {Some(<<"InvalidPDFException">>), None}
UpstreamErrors == {Some(<<"UpstreamError">>), None}
StorageErrors == {Some(<<"NotAllowedError">>)}
TypeErrorMessage == Some(<<"TypeError">>)
\* "AI 返回的数据格式不正确，无法解析。" aiService.ts:19
ParseErrorMessage == Some(<<"ParseError">>)
\* "请在 .env 中配置 VITE_<P>_API_KEY" aiService.ts:24,62,90
MissingKeyMessage(p) == Some(<<"MissingKey", p>>)
\* "GLM 错误: " aiService.ts:57
GlmPrefix == "GLM: "
\* "写入文件失败: " App.tsx:124
WriteFailedPrefix == "WriteFailed: "

\* `${err.message}` inside a template literal
MessageText(m) == IF IsSome(m) THEN Get(m) ELSE <<"undefined">>

-----------------------------------------------------------------------------
(* services/aiService.ts: parseSafeJSON *)

\* the grave accent, written by its code point
Backtick == "U+0060"
FenceJson == <<Backtick, Backtick, Backtick, "j", "s", "o", "n">>
Fence == <<Backtick, Backtick, Backtick>>

\* mutant of ReplaceFences: the alternatives in the other order, the bare
\* fence first, which never consumes "json"
RECURSIVE ReplaceFencesBareFirst(_, _)
ReplaceFencesBareFirst(text, pos) ==
    IF pos > Len(text) THEN <<>>
    ELSE IF StartsWith(SubSeq(text, pos, Len(text)), Fence)
         THEN ReplaceFencesBareFirst(text, pos + Len(Fence))
         ELSE <<text[pos]>> \o ReplaceFencesBareFirst(text, pos + 1)

\* text.replace(/FenceJson|Fence/g, ""): at each position the first
\* alternative that matches is taken, and the scan goes on after the match
RECURSIVE ReplaceFences(_, _)
ReplaceFences(text, pos) ==
    IF pos > Len(text) THEN <<>>
    ELSE IF StartsWith(SubSeq(text, pos, Len(text)), FenceJson)
         THEN ReplaceFences(text, pos + Len(FenceJson))
         ELSE IF StartsWith(SubSeq(text, pos, Len(text)), Fence)
              THEN ReplaceFences(text, pos + Len(Fence))
              ELSE <<text[pos]>> \o ReplaceFences(text, pos + 1)

\* JSON.parse on the JSON texts the characters of the model can spell: white space
\* around one value, which is a number of digits 1, a string without an
\* escape or a control character, or an object without members. Anything
\* else is a SyntaxError.
JSONParse(s) ==
    LET t == trim(s)
        n == Len(t)
    IN  IF n >= 1 /\ \A k \in 1..n : t[k] = "1"
        THEN [ok |-> TRUE, kind |-> "number", value |-> t]
        ELSE IF n >= 2 /\ t[1] = "\"" /\ t[n] = "\""
                /\ \A k \in 2..(n - 1) : t[k] # "\"" /\ (~IsSpace(t[k]) \/ t[k] = " ")
        THEN [ok |-> TRUE, kind |-> "string", value |-> SubSeq(t, 2, n - 1)]
        ELSE IF n >= 2 /\ t[1] = "{" /\ t[n] = "}"
                /\ \A k \in 2..(n - 1) : IsSpace(t[k])
        THEN [ok |-> TRUE, kind |-> "object", value |-> <<>>]
        ELSE [ok |-> FALSE, kind |-> "SyntaxError", value |-> <<>>]

\* aiService.ts:13-21: the parsed value, or an Error carrying the fixed message
parseSafeJSON(text) ==
    LET jsonStr == trim(ReplaceFences(text, 1))
        parsed == JSONParse(jsonStr)
    IN  IF parsed.ok
        THEN [threw |-> FALSE, kind |-> parsed.kind, value |-> parsed.value,
              message |-> None]
        ELSE [threw |-> TRUE, kind |-> "Error", value |-> <<>>,
              message |-> ParseErrorMessage]

\* a response that puts the payload inside a json code fence: white space
\* (pad) around the fence and (gap) between the markers and the payload
Fenced(payload, gap, pad) == pad \o FenceJson \o gap \o payload \o gap \o Fence \o pad

-----------------------------------------------------------------------------
(* PDFFile, types.ts:13-21; undef marks an index that holds no object *)

UndefEntry ==
    [undef |-> TRUE, uid |-> 0, handle |-> None, file |-> None, originalName |-> None,
     newName |-> None, extracted |-> None, status |-> "undefined", error |-> None]

\* { ...next[i] }: spreading undefined gives an object without properties
Spread(e) == IF e.undef THEN [UndefEntry EXCEPT !.undef = FALSE] ELSE e

\* const next = [...prev]: assigning beyond the length leaves empty indices
Extend(prev, i) ==
    IF Len(prev) >= i THEN prev
    ELSE prev \o [k \in 1..(i - Len(prev)) |-> UndefEntry]

\* { ...next[i] }
EntryAt(prev, i) == Spread(Extend(prev, i)[i])

\* next[i] = e; return next
SetAt(prev, i, e) == [Extend(prev, i) EXCEPT ![i] = e]

\* mutant of MarkProcessing: a new attempt also resets the name
MarkProcessingClearsName(e) ==
    [e EXCEPT !.status = "processing", !.error = None, !.newName = None]
\* App.tsx:94-98
MarkProcessing(e) == [e EXCEPT !.status = "processing", !.error = None]
\* mutant of MarkError: the catch records the message and leaves the status
MarkErrorKeepsStatus(e, msg) == [e EXCEPT !.error = msg]
MarkError(e, msg) == [e EXCEPT !.status = "error", !.error = msg]
MarkCompleted(e, info, name) ==
    [e EXCEPT !.extracted = Some(info), !.newName = Some(name), !.status = "completed"]

-----------------------------------------------------------------------------
(* The directory: a sequence of entries in the order handle.values() yields them *)

DirNames(d) == {d[k].name : k \in 1..Len(d)}
DirIndex(d, name) == CHOOSE k \in 1..Len(d) : d[k].name = name
DirCreate(d, name) ==
    IF name \in DirNames(d) THEN d ELSE Append(d, [name |-> name, content |-> EmptyContent])
DirWrite(d, name, content) ==
    IF name \in DirNames(d) THEN [d EXCEPT ![DirIndex(d, name)].content = content]
    ELSE Append(d, [name |-> name, content |-> content])
DirRemove(d, name) ==
    LET keep == {k \in 1..Len(d) : d[k].name # name}
        Rank(k) == Cardinality({j \in keep : j <= k})
    IN  [r \in 1..Cardinality(keep) |-> d[CHOOSE k \in keep : Rank(k) = r]]

-----------------------------------------------------------------------------
(* State *)

InitialConfig == [template |-> DefaultTemplate, sanitize |-> TRUE, provider |-> "glm"]

\* no helper is being called on its own
NoCall ==
    [fn |-> "none", pc |-> "idle", name |-> <<>>, template |-> <<>>, info |-> None,
     sanitize |-> TRUE, text |-> <<>>, gap |-> <<>>, pad |-> <<>>,
     result |-> None, again |-> None]

\* no processFiles invocation in flight
IdleRun ==
    [pc |-> "idle", i |-> 0, files |-> <<>>, config |-> InitialConfig,
     directoryHandle |-> None, extracted |-> None, finalName |-> None]

\* hist.attempts[k]: how often the current run marked index k 'processing';
\* hist.outcome[k]: how its pipeline ended ("none", "ok", "fail");
\* hist.calls: the steps of the attempt in flight or last made, each <<step, result>>
Init ==
    /\ files = <<>>
    /\ config = InitialConfig
    /\ isProcessing = FALSE
    /\ directoryHandle = None
    /\ dir \in {InitialDir(n) : n \in 1..MaxFiles}
    /\ env \in EnvChoices
    /\ run = IdleRun
    /\ sf = "idle"
    /\ hist = [runs |-> 0, ingests |-> 0, configChanges |-> 0, attempts |-> <<>>,
               outcome |-> <<>>, calls |-> <<>>]
    /\ pure = NoCall

-----------------------------------------------------------------------------
(* selectFolder, App.tsx:35-62 *)

\* showDirectoryPicker resolved: setDirectoryHandle(handle); setFiles([])
SelectFolderPick ==
    /\ sf = "idle"
    /\ hist.ingests + hist.runs < MaxStarts
    /\ sf' = "enumerating"
    /\ directoryHandle' = Some("dir")
    /\ files' = <<>>
    /\ hist' = [hist EXCEPT !.ingests = @ + 1]
    /\ UNCHANGED <<config, isProcessing, dir, env, run, pure>>

\* the PDFFile built for the k-th entry, App.tsx:47-53
IngestedFile(gen, k, entry) ==
    [undef |-> FALSE, uid |-> gen * 10 + k, handle |-> Some(entry.name),
     file |-> Some(entry.content), originalName |-> Some(entry.name),
     newName |-> Some(entry.name), extracted |-> None, status |-> "pending",
     error |-> None]

IsPdfName(name) == EndsWith(toLowerCase(name), DotPdf)

PdfFiles(d, gen) ==
    LET pdf == {k \in 1..Len(d) : IsPdfName(d[k].name)}
        Rank(k) == Cardinality({j \in pdf : j <= k})
    IN  [r \in 1..Cardinality(pdf) |->
            IngestedFile(gen, r, d[CHOOSE k \in pdf : Rank(k) = r])]

\* the entries were read: setFiles(pdfFiles)
SelectFolderEnumerated ==
    /\ sf = "enumerating"
    /\ sf' = "idle"
    /\ files' = PdfFiles(dir, hist.ingests)
    /\ UNCHANGED <<config, isProcessing, directoryHandle, dir, env, run, hist, pure>>

\* reading the entries threw: the catch of App.tsx:57-61 leaves the state as it is
SelectFolderFailed ==
    /\ sf = "enumerating"
    /\ sf' = "idle"
    /\ UNCHANGED <<files, config, isProcessing, directoryHandle, dir, env, run, hist, pure>>

-----------------------------------------------------------------------------
(* clearFiles, App.tsx:64-68 (the button is rendered when files.length > 0) *)

clearFiles ==
    /\ Len(files) > 0
    /\ ~isProcessing
    /\ files' = <<>>
    /\ directoryHandle' = None
    /\ UNCHANGED <<config, isProcessing, dir, env, run, sf, hist, pure>>

-----------------------------------------------------------------------------
(* setConfig, App.tsx:179, 207, 210 *)

SetProvider(p) ==
    /\ hist.configChanges < MaxConfigChanges
    /\ p # config.provider
    /\ config' = [config EXCEPT !.provider = p]
    /\ hist' = [hist EXCEPT !.configChanges = @ + 1]
    /\ UNCHANGED <<files, isProcessing, directoryHandle, dir, env, run, sf, pure>>

\* typing into the template input, or the eraser button (t = '')
SetTemplate(t) ==
    /\ hist.configChanges < MaxConfigChanges
    /\ t # config.template
    /\ config' = [config EXCEPT !.template = t]
    /\ hist' = [hist EXCEPT !.configChanges = @ + 1]
    /\ UNCHANGED <<files, isProcessing, directoryHandle, dir, env, run, sf, pure>>

-----------------------------------------------------------------------------
(* processFiles, App.tsx:87-142 *)

\* mutant of NextStop: the loop does not skip completed files
NextStopNoSkip(cl, from) == IF from <= Len(cl) THEN from ELSE Len(cl) + 1

\* mutant of NextStop: the loop takes the last file that is left first
NextStopLast(cl, from) ==
    LET stops == {k \in from..Len(cl) : cl[k].undef \/ cl[k].status # "completed"}
    IN  IF stops = {} THEN Len(cl) + 1
        ELSE CHOOSE k \in stops : \A j \in stops : k >= j

\* mutant of NextStop: a file whose extraction ended is taken once more in the run
NextStopAgain(cl, from) ==
    LET stops == {k \in from..Len(cl) : cl[k].undef \/ cl[k].status # "completed"}
    IN  IF from > 1 /\ run.pc = "extract" /\ hist.attempts[from - 1] = 1
        THEN from - 1
        ELSE IF stops = {} THEN Len(cl) + 1
        ELSE CHOOSE k \in stops : \A j \in stops : k <= j

\* the first index at or after from that the loop does not skip: an entry whose
\* status is not 'completed', or an index that holds no object (reading its
\* status throws); Len + 1 when the loop runs to its end           App.tsx:91-92
NextStop(cl, from) ==
    LET stops == {k \in from..Len(cl) : cl[k].undef \/ cl[k].status # "completed"}
    IN  IF stops = {} THEN Len(cl) + 1
        ELSE CHOOSE k \in stops : \A j \in stops : k <= j

Logged(calls, ev) == Append(calls, ev)

\* what a call of extractInvoiceData adds to the log: the request to the provider
\* (fetch, aiService.ts:27 and 64; generateContent, aiService.ts:93) is sent
\* after the key check has passed, then the call resolves or rejects
ExtractCalls(provider, keys, result) ==
    IF provider \in keys
    THEN << <<"fetch", "sent">>, <<"extract", result>> >>
    ELSE << <<"extract", result>> >>

\* The loop from index from on, up to its next await, for the invocation r, with
\* fs the list after the updates queued so far and h the history so far: it marks the next file
\* 'processing' and calls convertPdfToImage, or ends with setIsProcessing(false),
\* or dies on an index that holds no object (isProcessing stays true).
Continue(r, fs, from, h) ==
    LET k == NextStop(r.files, from)
    IN  IF k > Len(r.files)
        THEN /\ files' = fs
             /\ isProcessing' = FALSE
             /\ run' = IdleRun
             /\ hist' = h
        ELSE IF r.files[k].undef
        THEN /\ files' = fs
             /\ isProcessing' = TRUE
             /\ run' = [r EXCEPT !.pc = "crashed", !.i = k, !.extracted = None,
                                 !.finalName = None]
             /\ hist' = h
        ELSE /\ files' = SetAt(fs, k, MarkProcessing(EntryAt(fs, k)))
             /\ isProcessing' = TRUE
             /\ run' = [r EXCEPT !.pc = "convert", !.i = k, !.extracted = None,
                                 !.finalName = None]
             /\ hist' = [h EXCEPT !.attempts[k] = @ + 1, !.calls = <<>>]

\* mutant of StartGuard: isProcessing is not looked at
StartGuardFilesOnly == Len(files) # 0

\* if (isProcessing || files.length === 0) return;                  App.tsx:88
\* The handler reads the values of the last render; React renders the update
\* of a click before it handles the next click, so these are the current ones.
StartGuard == ~isProcessing /\ Len(files) # 0

\* the click on the start button: App.tsx:88-98 up to the first await
ProcessFilesStart ==
    /\ StartGuard
    /\ hist.ingests + hist.runs < MaxStarts
    /\ LET r == [IdleRun EXCEPT !.files = files, !.config = config,
                                !.directoryHandle = directoryHandle]
           h == [hist EXCEPT !.runs = @ + 1, !.calls = <<>>,
                             !.attempts = [k \in 1..Len(files) |-> 0],
                             !.outcome = [k \in 1..Len(files) |-> "none"]]
       IN  Continue(r, files, 1, h)
    /\ UNCHANGED <<config, directoryHandle, dir, env, sf, pure>>

\* the catch of App.tsx:133-139, then the next iteration
Fail(msg, calls) ==
    Continue(run, SetAt(files, run.i, MarkError(EntryAt(files, run.i), msg)), run.i + 1,
                 [hist EXCEPT !.calls = calls, !.outcome[run.i] = "fail"])

\* App.tsx:128-132, then the next iteration
Complete(info, name, calls) ==
    Continue(run, SetAt(files, run.i, MarkCompleted(EntryAt(files, run.i), info, name)),
             run.i + 1,
                 [hist EXCEPT !.calls = calls, !.outcome[run.i] = "ok"])

StorageSteps == {"getFileHandle", "createWritable", "write", "close", "removeEntry"}

FirstStorageStep == "getFileHandle"

\* mutant of StepAfter: the old entry is removed whether or not the name changed
StepAfterAlwaysRemove(step, renamed) ==
    CASE step = "getFileHandle" -> "createWritable"
      [] step = "createWritable" -> "write"
      [] step = "write" -> "close"
      [] step = "close" -> "removeEntry"
      [] step = "removeEntry" -> "done"

\* mutant of StepAfter: the old entry is removed before the content is written
StepAfterRemoveFirst(step, renamed) ==
    CASE step = "getFileHandle" -> "removeEntry"
      [] step = "removeEntry" -> "createWritable"
      [] step = "createWritable" -> "write"
      [] step = "write" -> "close"
      [] step = "close" -> "done"

\* the order of the awaited calls of App.tsx:114-121; after close, removeEntry
\* is called when the name changed (App.tsx:120), and "done" ends the commit
StepAfter(step, renamed) ==
    CASE step = "getFileHandle" -> "createWritable"
      [] step = "createWritable" -> "write"
      [] step = "write" -> "close"
      [] step = "close" -> IF renamed THEN "removeEntry" ELSE "done"
      [] step = "removeEntry" -> "done"

Current == run.files[run.i]

\* mutant of HasWriteCapability: only the handle of the file is looked at
HasWriteCapabilityHandleOnly(r) == IsSome(r.files[r.i].handle)

\* directoryHandle && files[i].handle                              App.tsx:111
HasWriteCapability(r) == IsSome(r.directoryHandle) /\ IsSome(r.files[r.i].handle)

\* mutant of ConfigOf: the configuration is read when it is used
ConfigOfLive(r, live) == live

\* config as processFiles reads it (App.tsx:103, 106, 107): the value of the
\* render the handler was created in, whatever setConfig did since
ConfigOf(r, live) == r.config

\* convertPdfToImage(files[i].file) resolves                        App.tsx:102
ConvertReturn ==
    /\ run.pc = "convert"
    /\ IsSome(Current.file)
    /\ Get(Current.file) \notin CorruptContents
    /\ run' = [run EXCEPT !.pc = "extract"]
    /\ hist' = [hist EXCEPT !.calls = Logged(@, <<"convert", "ok">>)]
    /\ UNCHANGED <<files, config, isProcessing, directoryHandle, dir, env, sf, pure>>

\* mutant of ConvertThrow: the rejection is logged and the pipeline goes on
ConvertThrowGoesOn(m) ==
    /\ run.pc = "convert"
    /\ IF IsSome(Current.file)
       THEN Get(Current.file) \in CorruptContents /\ m \in ConvertErrors
       ELSE m = TypeErrorMessage
    /\ run' = [run EXCEPT !.pc = "extract"]
    /\ hist' = [hist EXCEPT !.calls = Logged(@, <<"convert", "throw">>)]
    /\ UNCHANGED <<files, config, isProcessing, directoryHandle, dir, env, sf, pure>>

\* convertPdfToImage rejects: the file is no parseable PDF, or there is no file
ConvertThrow(m) ==
    /\ run.pc = "convert"
    /\ IF IsSome(Current.file)
       THEN Get(Current.file) \in CorruptContents /\ m \in ConvertErrors
       ELSE m = TypeErrorMessage
    /\ Fail(m, Logged(hist.calls, <<"convert", "throw">>))
    /\ UNCHANGED <<config, directoryHandle, dir, env, sf, pure>>

\* extractInvoiceData resolves with the parsed response (aiService.ts:121-134);
\* then App.tsx:106-111 up to the next await
ExtractReturn(info) ==
    /\ run.pc = "extract"
    /\ ConfigOf(run, config).provider \in env
    /\ LET cfg == ConfigOf(run, config)
           calls == hist.calls \o ExtractCalls(cfg.provider, env, "ok")
       IN  IF applyTemplateThrows(info)
           THEN /\ Fail(TypeErrorMessage, Logged(calls, <<"applyTemplate", "throw">>))
                /\ UNCHANGED dir
           ELSE IF HasWriteCapability(run)
           THEN /\ run' = [run EXCEPT !.pc = FirstStorageStep, !.extracted = Some(info),
                                      !.finalName = Some(FinalName(cfg, info))]
                /\ hist' = [hist EXCEPT !.calls = calls]
                /\ UNCHANGED <<files, isProcessing, dir>>
           ELSE /\ Complete(info, FinalName(cfg, info), calls)
                /\ UNCHANGED dir
    /\ UNCHANGED <<config, directoryHandle, env, sf, pure>>

\* mutant of ExtractMessages: the key is not looked at before the request
ExtractMessagesNoKeyCheck(provider, keys) ==
    IF provider = "glm"
    THEN {Some(<<GlmPrefix>> \o MessageText(m)) : m \in UpstreamErrors \cup {ParseErrorMessage}}
    ELSE UpstreamErrors \cup {ParseErrorMessage}

\* the message extractInvoiceData rejects with: the key is missing
\* (aiService.ts:24,62,90), the request failed, or parseSafeJSON threw; callGLM
\* wraps what its try block throws (aiService.ts:56-58)
ExtractMessages(provider, keys) ==
    IF provider \notin keys THEN {MissingKeyMessage(provider)}
    ELSE IF provider = "glm"
         THEN {Some(<<GlmPrefix>> \o MessageText(m)) :
                  m \in UpstreamErrors \cup {ParseErrorMessage}}
         ELSE UpstreamErrors \cup {ParseErrorMessage}

AllExtractMessages ==
    UNION {ExtractMessages(p, keys) : p \in Providers, keys \in EnvChoices}

ExtractThrow(m) ==
    /\ run.pc = "extract"
    /\ m \in ExtractMessages(ConfigOf(run, config).provider, env)
    /\ Fail(m, hist.calls \o ExtractCalls(ConfigOf(run, config).provider, env, "throw"))
    /\ UNCHANGED <<config, directoryHandle, dir, env, sf, pure>>

\* mutant of WriteFailedMessage: the inner catch rethrows the error as it is
WriteFailedUnwrapped(m) == m

\* the catch of App.tsx:123-125
WriteFailedMessage(m) == Some(<<WriteFailedPrefix>> \o MessageText(m))

\* a step of App.tsx:114-121 throws
StorageThrow(m) ==
    /\ run.pc \in StorageSteps
    /\ m \in StorageErrors
    /\ Fail(WriteFailedMessage(m), Logged(hist.calls, <<run.pc, "throw">>))
    /\ UNCHANGED <<config, directoryHandle, dir, env, sf, pure>>

\* directoryHandle.getFileHandle(finalName, { create: true })       App.tsx:114
GetFileHandleReturn ==
    /\ run.pc = "getFileHandle"
    /\ dir' = DirCreate(dir, Get(run.finalName))
    /\ run' = [run EXCEPT !.pc = StepAfter("getFileHandle", FALSE)]
    /\ hist' = [hist EXCEPT !.calls = Logged(@, <<"getFileHandle", "ok">>)]
    /\ UNCHANGED <<files, config, isProcessing, directoryHandle, env, sf, pure>>

\* newFileHandle.createWritable()                                   App.tsx:115
CreateWritableReturn ==
    /\ run.pc = "createWritable"
    /\ run' = [run EXCEPT !.pc = StepAfter("createWritable", FALSE)]
    /\ hist' = [hist EXCEPT !.calls = Logged(@, <<"createWritable", "ok">>)]
    /\ UNCHANGED <<files, config, isProcessing, directoryHandle, dir, env, sf, pure>>

\* writable.write(files[i].file)                                    App.tsx:116
WriteReturn ==
    /\ run.pc = "write"
    /\ run' = [run EXCEPT !.pc = StepAfter("write", FALSE)]
    /\ hist' = [hist EXCEPT !.calls = Logged(@, <<"write", "ok">>)]
    /\ UNCHANGED <<files, config, isProcessing, directoryHandle, dir, env, sf, pure>>

\* writable.close() puts the written content under finalName; then App.tsx:120
CloseReturn ==
    /\ run.pc = "close"
    /\ dir' = DirWrite(dir, Get(run.finalName), Get(Current.file))
    /\ LET calls == Logged(hist.calls, <<"close", "ok">>)
           next == StepAfter("close", Get(run.finalName) # Get(Current.originalName))
       IN  IF next # "done"
           THEN /\ run' = [run EXCEPT !.pc = next]
                /\ hist' = [hist EXCEPT !.calls = calls]
                /\ UNCHANGED <<files, isProcessing>>
           ELSE Complete(Get(run.extracted), Get(run.finalName), calls)
    /\ UNCHANGED <<config, directoryHandle, env, sf, pure>>

\* directoryHandle.removeEntry(files[i].originalName) resolves: the entry was
\* there (it rejects otherwise, StorageThrow)                       App.tsx:121
RemoveEntryReturn ==
    /\ run.pc = "removeEntry"
    /\ Get(Current.originalName) \in DirNames(dir)
    /\ dir' = DirRemove(dir, Get(Current.originalName))
    /\ LET calls == Logged(hist.calls, <<"removeEntry", "ok">>)
           next == StepAfter("removeEntry", TRUE)
       IN  IF next # "done"
           THEN /\ run' = [run EXCEPT !.pc = next]
                /\ hist' = [hist EXCEPT !.calls = calls]
                /\ UNCHANGED <<files, isProcessing>>
           ELSE Complete(Get(run.extracted), Get(run.finalName), calls)
    /\ UNCHANGED <<config, directoryHandle, env, sf, pure>>

-----------------------------------------------------------------------------

Next ==
    \/ SelectFolderPick
    \/ SelectFolderEnumerated
    \/ SelectFolderFailed
    \/ clearFiles
    \/ \E p \in Providers : SetProvider(p)
    \/ \E t \in Templates : SetTemplate(t)
    \/ ProcessFilesStart
    \/ ConvertReturn
    \/ \E m \in ConvertErrors \cup {TypeErrorMessage} : ConvertThrow(m)
    \/ \E info \in ParsedValues : ExtractReturn(info)
    \/ \E m \in AllExtractMessages : ExtractThrow(m)
    \/ \E m \in StorageErrors : StorageThrow(m)
    \/ GetFileHandleReturn
    \/ CreateWritableReturn
    \/ WriteReturn
    \/ CloseReturn
    \/ RemoveEntryReturn

Spec == Init /\ [][Next]_vars

\* A list is tracked while directoryHandle is null.  The App gets there when
\* clearFiles runs between setDirectoryHandle(handle) (App.tsx:40) and
\* setFiles(pdfFiles) (App.tsx:56) of one selectFolder call, the list being
\* non-empty at that moment because a run that ended meanwhile wrote into it.
InitFallback ==
    /\ dir \in {InitialDir(n) : n \in 1..MaxFiles}
    /\ files = PdfFiles(dir, 1)
    /\ config = InitialConfig
    /\ isProcessing = FALSE
    /\ directoryHandle = None
    /\ env \in EnvChoices
    /\ run = IdleRun
    /\ sf = "idle"
    /\ hist = [runs |-> 0, ingests |-> 1, configChanges |-> 0, attempts |-> <<>>,
               outcome |-> <<>>, calls |-> <<>>]
    /\ pure = NoCall

SpecFallback == InitFallback /\ [][Next]_vars

\* The folder has been picked and read (selectFolder, App.tsx:35-56), all keys
\* are configured, and nothing else has happened; hist counts the invocations
\* from this state on.
InitRetry ==
    /\ dir \in {InitialDir(n) : n \in 1..MaxRetryFiles}
    /\ files = PdfFiles(dir, 0)
    /\ config = InitialConfig
    /\ isProcessing = FALSE
    /\ directoryHandle = Some("dir")
    /\ env = Providers
    /\ run = IdleRun
    /\ sf = "idle"
    /\ hist = [runs |-> 0, ingests |-> 0, configChanges |-> 0, attempts |-> <<>>,
               outcome |-> <<>>, calls |-> <<>>]
    /\ pure = NoCall

SpecRetry == InitRetry /\ [][Next]_vars

-----------------------------------------------------------------------------
(* The helpers of utils/pdfProcessor.ts called on their own *)

Seqs(S, n) == UNION {[1..m -> S] : m \in 0..n}
RECURSIVE Flatten(_)
Flatten(ss) == IF ss = <<>> THEN <<>> ELSE Head(ss) \o Flatten(Tail(ss))

\* the names handed to sanitizeFilename
NameChars == {" ", "a", "/", "\\", "_"}
\* "Invoice: Q1/2024?.pdf"
ExampleName ==
    <<"I", "n", "v", "o", "i", "c", "e", ":", " ", "Q", "1", "/", "2", "0", "2", "4", "?", ".", "p", "d", "f">>
Names == Seqs(NameChars, MaxNameLen) \cup {ExampleName}

\* the templates handed to applyTemplate: the six tags, a token that is no
\* tag, and plain text
UnknownTag == <<"{", "f", "o", "o", "}">>
TemplateTokens ==
    {TagDate, TagMerchant, TagInvoice, TagMonth, TagAmount, TagCurrency, UnknownTag, <<"_">>}
PureTemplates == {Flatten(ts) : ts \in Seqs(TemplateTokens, MaxTemplateTokens)}

\* the records handed to applyTemplate: a field is a text, the empty text or
\* undefined; a text can hold a tag or a "$" pattern of replace()
PureInfos ==
    {[InfoA EXCEPT !.date = d, !.merchant = m, !.amount = a] :
        d \in {InfoA.date, Some(<<>>), None},
        m \in {InfoA.merchant, Some(TagAmount), Some(<<"$", "$">>), None},
        a \in {InfoA.amount, None}}

\* the record of the naming example: 2024-01-05, Acme, 42.5
ExampleInfo ==
    [InfoA EXCEPT !.date = Some(<<"2", "0", "2", "4", "-", "0", "1", "-", "0", "5">>),
                  !.amount = Some(Tenths(42, 5))]

\* the templates and records the naming step (App.tsx:106-108) is run on:
\* with and without a '.pdf' suffix in either case, with reserved characters
\* and outer white space
NamingTemplates ==
    Templates \cup {TagMerchant \o DotPdf, <<" ">> \o TagMerchant \o <<"/">> \o TagDate,
                    TagMerchant \o <<".", "p", "d", "f", " ">>}
NamingInfos ==
    {InfoA, InfoB, ExampleInfo, [InfoA EXCEPT !.merchant = Some(<<"A", ":", "c">>)]}

\* the provider responses handed to parseSafeJSON: a payload, alone or inside
\* a json code fence with white space around it
PayloadChars == {"{", "}", "1", "\"", Backtick}
Payloads == Seqs(PayloadChars, MaxPayloadLen)
Gaps == {<<>>, <<"\n">>}
Pads == {<<>>, <<" ">>}

PureCalls ==
    {[NoCall EXCEPT !.fn = "sanitizeFilename", !.pc = "call", !.name = n] : n \in Names}
    \cup {[NoCall EXCEPT !.fn = "applyTemplate", !.pc = "call", !.template = t,
                         !.info = Some(i)] : t \in PureTemplates, i \in PureInfos}
    \cup {[NoCall EXCEPT !.fn = "finalName", !.pc = "call", !.template = t,
                         !.info = Some(i), !.sanitize = b] :
             t \in NamingTemplates, i \in NamingInfos, b \in BOOLEAN}
    \cup {[NoCall EXCEPT !.fn = "parseSafeJSON", !.pc = "call", !.text = p,
                         !.gap = g, !.pad = w] :
             p \in Payloads, g \in Gaps, w \in Pads}

PureInit ==
    /\ files = <<>>
    /\ config = InitialConfig
    /\ isProcessing = FALSE
    /\ directoryHandle = None
    /\ dir = InitialDir(1)
    /\ env = Providers
    /\ run = IdleRun
    /\ sf = "idle"
    /\ hist = [runs |-> 0, ingests |-> 0, configChanges |-> 0, attempts |-> <<>>,
               outcome |-> <<>>, calls |-> <<>>]
    /\ pure \in PureCalls

\* sanitizeFilename(name)
CallSanitizeFilename ==
    /\ pure.fn = "sanitizeFilename"
    /\ pure.pc = "call"
    /\ pure' = [pure EXCEPT !.pc = "returned", !.result = Some(sanitizeFilename(pure.name))]
    /\ UNCHANGED <<files, config, isProcessing, directoryHandle, dir, env, run, sf, hist>>

\* sanitizeFilename applied to what it returned
CallSanitizeFilenameAgain ==
    /\ pure.fn = "sanitizeFilename"
    /\ pure.pc = "returned"
    /\ pure' = [pure EXCEPT !.pc = "again",
                            !.again = Some(sanitizeFilename(Get(pure.result)))]
    /\ UNCHANGED <<files, config, isProcessing, directoryHandle, dir, env, run, sf, hist>>

\* applyTemplate(template, info): it returns the text or throws
CallApplyTemplate ==
    /\ pure.fn = "applyTemplate"
    /\ pure.pc = "call"
    /\ pure' = IF applyTemplateThrows(Get(pure.info))
               THEN [pure EXCEPT !.pc = "threw"]
               ELSE [pure EXCEPT !.pc = "returned",
                                 !.result = Some(applyTemplate(pure.template, Get(pure.info)))]
    /\ UNCHANGED <<files, config, isProcessing, directoryHandle, dir, env, run, sf, hist>>

\* the naming step of processFiles, App.tsx:106-108
CallFinalName ==
    /\ pure.fn = "finalName"
    /\ pure.pc = "call"
    /\ pure' = [pure EXCEPT !.pc = "returned",
                            !.result = Some(FinalName([InitialConfig EXCEPT
                                                          !.template = pure.template,
                                                          !.sanitize = pure.sanitize],
                                                      Get(pure.info)))]
    /\ UNCHANGED <<files, config, isProcessing, directoryHandle, dir, env, run, sf, hist>>

\* parseSafeJSON(text) on the fenced response
CallParseSafeJSON ==
    /\ pure.fn = "parseSafeJSON"
    /\ pure.pc = "call"
    /\ pure' = [pure EXCEPT !.pc = "returned",
                            !.result = Some(parseSafeJSON(Fenced(pure.text, pure.gap,
                                                                 pure.pad)))]
    /\ UNCHANGED <<files, config, isProcessing, directoryHandle, dir, env, run, sf, hist>>

\* parseSafeJSON(text) on the payload alone
CallParseSafeJSONUnwrapped ==
    /\ pure.fn = "parseSafeJSON"
    /\ pure.pc = "returned"
    /\ pure' = [pure EXCEPT !.pc = "again", !.again = Some(parseSafeJSON(pure.text))]
    /\ UNCHANGED <<files, config, isProcessing, directoryHandle, dir, env, run, sf, hist>>

PureNext ==
    \/ CallSanitizeFilename
    \/ CallSanitizeFilenameAgain
    \/ CallApplyTemplate
    \/ CallFinalName
    \/ CallParseSafeJSON
    \/ CallParseSafeJSONUnwrapped

SpecPure == PureInit /\ [][PureNext]_vars

-----------------------------------------------------------------------------
(* Properties *)

Statuses(fs) == [k \in 1..Len(fs) |-> fs[k].status]

\* the step in which a run ends: its last outcome and setIsProcessing(false)
Finishes == run.pc \notin {"idle", "crashed"} /\ run'.pc = "idle"

\* C1: after one processFiles run, each file of the run is Completed iff its own
\* pipeline succeeded and Failed otherwise, whatever the other files did.
C1_FailureIsolation ==
    [][Finishes =>
        \A k \in 1..Len(run.files) :
            run.files[k].status # "completed" =>
                /\ k <= Len(files')
                /\ files'[k].status =
                      (IF hist'.outcome[k] = "ok" THEN "completed" ELSE "error")]_vars

\* the list the run was started on is still the tracked list
SameList(cl, fs) == Len(fs) = Len(cl) /\ \A k \in 1..Len(cl) : fs[k].uid = cl[k].uid

\* the same statement for the runs during which the list was not replaced
C1_FailureIsolationSameList ==
    [][Finishes /\ SameList(run.files, files') =>
        \A k \in 1..Len(run.files) :
            run.files[k].status # "completed" =>
                files'[k].status =
                    (IF hist'.outcome[k] = "ok" THEN "completed" ELSE "error")]_vars

StatusSteps ==
    {<<"pending", "processing">>, <<"processing", "completed">>,
     <<"processing", "error">>, <<"error", "processing">>}

\* C2: in every step, the status of a tracked file stays or moves along
\* pending->processing, processing->completed, processing->error, error->processing.
C2_StatusMachine ==
    [][\A k \in 1..Len(files) :
          (k <= Len(files') /\ ~files[k].undef /\ ~files'[k].undef
             /\ files'[k].uid = files[k].uid) =>
              \/ files'[k].status = files[k].status
              \/ <<files[k].status, files'[k].status>> \in StatusSteps]_vars

\* C3: a file that is Completed when the run starts is not attempted by the run,
\* and no step taken while the run is in flight changes it.
C3_CompletedSkipped ==
    [][run.pc # "idle" =>
        \A k \in 1..Len(run.files) :
            (~run.files[k].undef /\ run.files[k].status = "completed") =>
                /\ hist'.attempts[k] = 0
                /\ run'.pc # "idle" => run'.i # k
                /\ (k <= Len(files) /\ files[k] = run.files[k]
                      /\ k <= Len(files') /\ files'[k].uid = files[k].uid)
                   => files'[k] = files[k]]_vars

\* a second run is extracting a later file while an earlier file, completed
\* before, would get another name under the configuration of this run
C3_Witness ==
    /\ run.pc = "extract"
    /\ \E k \in 1..(run.i - 1) :
          /\ run.files[k].status = "completed"
          /\ files[k] = run.files[k]
          /\ Get(files[k].newName) # FinalName(run.config, Get(files[k].extracted))

\* C4: while the run is at index i, every earlier file that was not Completed at
\* the start has had its outcome recorded, and no later file has been attempted.
C4_IngestionOrder ==
    run.pc # "idle" =>
        \A j \in 1..Len(run.files) :
            /\ (j < run.i /\ ~run.files[j].undef /\ run.files[j].status # "completed")
                  => hist.attempts[j] = 1 /\ hist.outcome[j] # "none"
            /\ j > run.i => hist.attempts[j] = 0 /\ hist.outcome[j] = "none"

C4_Witness ==
    /\ run.pc = "convert"
    /\ run.i = 3
    /\ hist.outcome[1] = "ok" /\ hist.outcome[2] = "fail"
    /\ Statuses(files) = <<"completed", "error", "processing">>

\* C5: at most one tracked file is Processing.
C5_OneProcessing ==
    Cardinality({k \in 1..Len(files) : files[k].status = "processing"}) <= 1

C5_Witness ==
    /\ Len(files) >= 2
    /\ files[1].status = "error"
    /\ files[2].status = "processing"
    /\ run.pc = "convert"

CountCalls(calls, step) == Cardinality({n \in 1..Len(calls) : calls[n][1] = step})

C7_SettledAtFinish ==
    [][Finishes =>
        \A k \in 1..Len(files') : files'[k].status \in {"completed", "error"}]_vars

\* C8: a Completed file has extracted present and a newName ending in '.pdf',
\* compared case-insensitively.
C8_CompletedHasName ==
    \A k \in 1..Len(files) :
        files[k].status = "completed" =>
            /\ IsSome(files[k].extracted)
            /\ IsSome(files[k].newName)
            /\ EndsWith(toLowerCase(Get(files[k].newName)), DotPdf)

\* a Completed file whose rendered name ended in '.PDF' and got no second suffix
C8_Witness ==
    \E k \in 1..Len(files) :
        /\ files[k].status = "completed"
        /\ EndsWith(Get(files[k].newName), <<".", "P", "D", "F">>)
        /\ files[k].newName # files[k].originalName

\* C9: the error field is present iff the status is Failed.
C9_ErrorIffFailed ==
    \A k \in 1..Len(files) :
        ~files[k].undef => (IsSome(files[k].error) <=> files[k].status = "error")

WriteCalls ==
    << <<"convert", "ok">>, <<"fetch", "sent">>, <<"extract", "ok">>,
       <<"getFileHandle", "ok">>,
       <<"createWritable", "ok">>, <<"write", "ok">>, <<"close", "ok">> >>

\* C10: removeEntry is called only after getFileHandle, createWritable, write and
\* close of the same attempt have succeeded, the content then being in the
\* directory under the new name; after a throwing write step it is not called.
C10_DeleteAfterWrite ==
    /\ (run.pc = "removeEntry" \/ CountCalls(hist.calls, "removeEntry") > 0) =>
          /\ Len(hist.calls) >= Len(WriteCalls)
          /\ SubSeq(hist.calls, 1, Len(WriteCalls)) = WriteCalls
    /\ run.pc = "removeEntry" =>
          \E n \in 1..Len(dir) :
              dir[n] = [name |-> Get(run.finalName), content |-> Get(Current.file)]

\* the old entry was removed after the write
C10_Witness ==
    /\ hist.calls = WriteCalls \o << <<"removeEntry", "ok">> >>
    /\ \E k \in 1..Len(files) :
          /\ files[k].status = "completed"
          /\ IsSome(files[k].originalName)
          /\ Get(files[k].originalName) \notin DirNames(dir)
          /\ Get(files[k].newName) \in DirNames(dir)


\* the directory d holds content under name
HasContent(d, name, content) ==
    \E n \in 1..Len(d) : d[n] = [name |-> name, content |-> content]

\* C11: in every state, the directory holds the content of every tracked file
\* under its originalName or under its computed final name (its newName, or the
\* name the commit in flight writes it under).
C11_NoLostContent ==
    \A k \in 1..Len(files) :
        (~files[k].undef /\ IsSome(files[k].file) /\ IsSome(files[k].originalName)) =>
            \/ HasContent(dir, Get(files[k].originalName), Get(files[k].file))
            \/ HasContent(dir, Get(files[k].newName), Get(files[k].file))
            \/ /\ run.pc \in StorageSteps
               /\ run.i = k
               /\ run.files[k].uid = files[k].uid
               /\ HasContent(dir, Get(run.finalName), Get(files[k].file))

\* the commit in flight writes the file under the name it already has
SameName == run.pc \in StorageSteps /\ Get(run.finalName) = Get(Current.originalName)

\* C12: when the final name equals the originalName, no step of the commit leads
\* to removeEntry, the entry under originalName is in the directory after every
\* step, and when close has returned the file is Completed under that name.
C12_NoRemoveWhenSameName ==
    [][SameName =>
        /\ run'.pc # "removeEntry"
        /\ CountCalls(hist'.calls, "removeEntry") = 0
        /\ Get(Current.originalName) \in DirNames(dir')
        /\ (run.pc = "close" /\ run'.pc # "close" /\ hist'.outcome[run.i] # "fail") =>
              /\ files'[run.i].status = "completed"
              /\ files'[run.i].newName = run.finalName]_vars

\* a file was committed under its own name and is Completed; its entry is there
C12_Witness ==
    /\ hist.calls = WriteCalls
    /\ \E k \in 1..Len(files) :
          /\ files[k].status = "completed"
          /\ IsSome(files[k].originalName)
          /\ files[k].newName = files[k].originalName
          /\ hist.outcome[k] = "ok"
          /\ HasContent(dir, Get(files[k].originalName), Get(files[k].file))

\* the content the directory d holds under name, if any
EntryOf(d, name) == IF name \in DirNames(d) THEN Some(d[DirIndex(d, name)].content) ELSE None

\* the step in which a call of the storage commit throws
StorageFails ==
    run.pc \in StorageSteps /\ hist.outcome[run.i] = "none" /\ hist'.outcome[run.i] = "fail"

\* C13: when a step of the storage commit throws, the file is marked Failed with
\* the write-failure prefix followed by the detail, its newName and extracted
\* stay as they were, and the directory is as before the step; no step of a
\* commit that does not succeed changes the entry under originalName.
C13_WriteFailure ==
    [][/\ StorageFails =>
            /\ files'[run.i].status = "error"
            /\ IsSome(files'[run.i].error)
            /\ Len(Get(files'[run.i].error)) >= 2
            /\ Head(Get(files'[run.i].error)) = WriteFailedPrefix
            /\ (run.i <= Len(files) /\ ~files[run.i].undef) =>
                  /\ files'[run.i].newName = files[run.i].newName
                  /\ files'[run.i].extracted = files[run.i].extracted
            /\ dir' = dir
       /\ (run.pc \in StorageSteps /\ hist'.outcome[run.i] # "ok") =>
            EntryOf(dir', Get(Current.originalName)) = EntryOf(dir, Get(Current.originalName))
      ]_vars

\* removeEntry threw after the content was written under the new name: the
\* file is Failed, still named as before, and its old entry holds its content
C13_Witness ==
    /\ hist.calls = WriteCalls \o << <<"removeEntry", "throw">> >>
    /\ \E k \in 1..Len(files) :
          /\ hist.outcome[k] = "fail"
          /\ files[k].status = "error"
          /\ Head(Get(files[k].error)) = WriteFailedPrefix
          /\ IsSome(files[k].originalName)
          /\ files[k].newName = files[k].originalName
          /\ files[k].extracted = None
          /\ HasContent(dir, Get(files[k].originalName), Get(files[k].file))
          /\ Cardinality(DirNames(dir)) > Len(files)

\* the attempt in flight has no directory or no handle for its file
Fallback ==
    /\ run.pc \in {"convert", "extract"} \cup StorageSteps
    /\ (run.directoryHandle = None \/ Current.handle = None)

\* C14: an attempt without directoryHandle or without a file handle never
\* enters the storage commit and leaves the directory as it is, and when its
\* extraction has returned and the name is computed the file is Completed
\* with that name.
C14_FallbackBypass ==
    [][Fallback =>
        /\ run.pc \notin StorageSteps
        /\ run'.pc \in StorageSteps => run'.i # run.i
        /\ \A n \in 1..Len(hist.calls) : hist.calls[n][1] \notin StorageSteps
        /\ dir' = dir
        /\ (run.pc = "extract" /\ hist'.outcome[run.i] # hist.outcome[run.i]) =>
              \/ /\ hist'.outcome[run.i] = "fail"
                 /\ files'[run.i].status = "error"
                 /\ files'[run.i].error \in AllExtractMessages \cup {TypeErrorMessage}
              \/ /\ hist'.outcome[run.i] = "ok"
                 /\ files'[run.i].status = "completed"
                 /\ IsSome(files'[run.i].extracted)
                 /\ files'[run.i].newName =
                       Some(FinalName(run.config, Get(files'[run.i].extracted)))]_vars

\* a run without directoryHandle has completed a file under a new name, and
\* the directory still holds the file under its old name only
C14_Witness ==
    /\ run.pc # "idle"
    /\ run.directoryHandle = None
    /\ \E k \in 1..Len(files) :
          /\ k < run.i
          /\ hist.outcome[k] = "ok"
          /\ files[k].status = "completed"
          /\ IsSome(files[k].handle)
          /\ files[k].newName # files[k].originalName
          /\ Get(files[k].newName) \notin DirNames(dir)
          /\ HasContent(dir, Get(files[k].originalName), Get(files[k].file))

\* the stage prefixes of the specification
DecodeFailedPrefix == "DecodeFailed: "
ExtractionFailedPrefix == "ExtractionFailed: "

\* the step in which convertPdfToImage or extractInvoiceData throws (a throw
\* of applyTemplate, which follows the extraction, is left out)
StageFails ==
    /\ run.pc \in {"convert", "extract"}
    /\ hist.outcome[run.i] = "none"
    /\ hist'.outcome[run.i] = "fail"
    /\ ~(run.pc = "extract" /\ files'[run.i].error = TypeErrorMessage)

\* C15: when rasterization throws, the recorded error is the decode prefix
\* followed by the detail; when the provider throws, it is the extraction
\* prefix followed by the detail.
C15_StageTagged ==
    [][StageFails =>
        /\ IsSome(files'[run.i].error)
        /\ Len(Get(files'[run.i].error)) >= 2
        /\ Head(Get(files'[run.i].error)) =
              (IF run.pc = "convert" THEN DecodeFailedPrefix ELSE ExtractionFailedPrefix)]_vars

\* the attempt in flight is about to call a provider that has no key
MissingKey == run.pc = "extract" /\ run.config.provider \notin env

\* C16: when the selected provider has no key, the call of extractInvoiceData
\* ends with the missing-key error of that provider without a request having
\* been sent, the file is Failed with that error, and the run goes on to a
\* later file or ends.
C16_MissingCredential ==
    [][/\ MissingKey => CountCalls(hist.calls, "fetch") = 0
       /\ (MissingKey /\ run' # run) =>
            /\ hist'.outcome[run.i] = "fail"
            /\ CountCalls(hist'.calls, "fetch") = 0
            /\ files'[run.i].status = "error"
            /\ files'[run.i].error = MissingKeyMessage(run.config.provider)
            /\ (run'.pc = "idle" \/ run'.i > run.i)]_vars

\* a file failed for the missing key of a provider selected in the UI, and the
\* run is at the next file
C16_Witness ==
    /\ env = {}
    /\ run.pc = "convert"
    /\ run.i = 2
    /\ run.config.provider = "gemini"
    /\ hist.outcome[1] = "fail"
    /\ files[1].status = "error"
    /\ files[1].error = MissingKeyMessage("gemini")

\* the record has all six fields
FullyPopulated(info) ==
    /\ info.type = "object"
    /\ IsSome(info.date) /\ IsSome(info.merchant) /\ IsSome(info.invoice)
    /\ IsSome(info.month) /\ IsSome(info.amount) /\ IsSome(info.currency)

\* C17: the extracted record of a Completed file has all six fields.
C17_FullyPopulated ==
    \A k \in 1..Len(files) :
        (files[k].status = "completed" /\ IsSome(files[k].extracted)) =>
            FullyPopulated(Get(files[k].extracted))

\* s holds p as a substring
Contains(s, p) == \E n \in 1..(Len(s) - Len(p) + 1) : SubSeq(s, n, n + Len(p) - 1) = p

\* the text of a field, fb standing for a field that is empty or undefined
FieldText(o, fb) == IF IsSome(o) /\ Get(o) # <<>> THEN Get(o) ELSE fb

\* the six placeholders and the texts that stand for them
Pairs(info, fb) ==
    << <<TagDate, FieldText(info.date, fb)>>,
       <<TagMerchant, FieldText(info.merchant, fb)>>,
       <<TagInvoice, FieldText(info.invoice, fb)>>,
       <<TagMonth, FieldText(info.month, fb)>>,
       <<TagAmount, IF IsSome(info.amount) THEN NumberToString(Get(info.amount)) ELSE fb>>,
       <<TagCurrency, FieldText(info.currency, fb)>> >>

\* the template read once from left to right, every placeholder of pairs
\* replaced by its text and everything else copied
RECURSIVE Substitute(_, _, _)
Substitute(t, pos, pairs) ==
    IF pos > Len(t) THEN <<>>
    ELSE LET rest == SubSeq(t, pos, Len(t))
             hit == {n \in 1..Len(pairs) : StartsWith(rest, pairs[n][1])}
         IN  IF hit = {} THEN <<t[pos]>> \o Substitute(t, pos + 1, pairs)
             ELSE LET n == CHOOSE n \in hit : TRUE
                  IN  pairs[n][2] \o Substitute(t, pos + Len(pairs[n][1]), pairs)

\* a placeholder of the template stands for a field that is empty or undefined
RefersToMissing(t, info) ==
    \E n \in 1..6 : Contains(t, Pairs(info, <<>>)[n][1]) /\ Pairs(info, <<>>)[n][2] = <<>>

ApplyTemplateEnded == pure.fn = "applyTemplate" /\ pure.pc \in {"returned", "threw"}

\* C18: when a placeholder of the template stands for a field that is empty or
\* undefined, applyTemplate returns, and what it returns neither holds the text
\* "undefined" nor is the template with nothing in the place of that field.
C18_TemplateFallback ==
    (ApplyTemplateEnded /\ RefersToMissing(pure.template, Get(pure.info))) =>
        /\ pure.pc = "returned"
        /\ ~Contains(Get(pure.result), UndefinedText)
        /\ Get(pure.result) # Substitute(pure.template, 1, Pairs(Get(pure.info), <<>>))

\* C19: for a record with all six fields, applyTemplate returns the template
\* with every placeholder replaced by exactly the value of its field and all
\* other text as it is, a value that holds a placeholder included.
C19_Substitution ==
    (ApplyTemplateEnded /\ FullyPopulated(Get(pure.info))) =>
        /\ pure.pc = "returned"
        /\ Get(pure.result) = Substitute(pure.template, 1, Pairs(Get(pure.info), <<>>))

\* C20: sanitizeFilename applied to its own result returns that result.
C20_SanitizeIdempotent ==
    (pure.fn = "sanitizeFilename" /\ pure.pc = "again") => pure.again = pure.result

\* a name with spaces at both ends around a reserved character went through
\* sanitizeFilename twice
C20_Witness ==
    /\ pure.fn = "sanitizeFilename"
    /\ pure.pc = "again"
    /\ pure.name = <<" ", "/", " ">>
    /\ pure.result = Some(<<"_">>)

\* r is name with each reserved character replaced by one "_" and the outer
\* white space cut off
Sanitized(name, r) ==
    \E a \in 0..Len(name) :
        /\ a + Len(r) <= Len(name)
        /\ \A k \in 1..Len(r) :
              r[k] = IF name[a + k] \in ReservedChars THEN "_" ELSE name[a + k]
        /\ \A k \in (1..a) \cup ((a + Len(r) + 1)..Len(name)) : IsSpace(name[k])

\* C21: sanitizeFilename returns a text for every name; the text holds no
\* reserved character, neither starts nor ends with white space, and is the
\* name with each reserved character replaced by one underscore and the
\* leading and trailing white space removed.
C21_SanitizeResult ==
    (pure.fn = "sanitizeFilename" /\ pure.pc # "call") =>
        /\ IsSome(pure.result)
        /\ LET r == Get(pure.result)
           IN  /\ \A k \in 1..Len(r) : r[k] \notin ReservedChars
               /\ r # <<>> => ~IsSpace(r[1]) /\ ~IsSpace(r[Len(r)])
               /\ Sanitized(pure.name, r)

\* "Invoice: Q1/2024?.pdf" has become "Invoice_ Q1_2024_.pdf"
C21_Witness ==
    /\ pure.fn = "sanitizeFilename"
    /\ pure.pc = "returned"
    /\ pure.name = ExampleName
    /\ pure.result = Some(<<"I", "n", "v", "o", "i", "c", "e", "_", " ", "Q", "1", "_", "2", "0", "2", "4", "_", ".", "p", "d", "f">>)

\* C22: the final name is the rendered template, sanitized exactly when
\* sanitize is set, with ".pdf" appended exactly when it does not already end
\* with ".pdf" in either case; it always ends with ".pdf" in some case.
C22_FinalName ==
    (pure.fn = "finalName" /\ pure.pc = "returned") =>
        LET rendered == applyTemplate(pure.template, Get(pure.info))
            base == IF pure.sanitize THEN sanitizeFilename(rendered) ELSE rendered
            r == Get(pure.result)
        IN  /\ EndsWith(toLowerCase(r), DotPdf)
            /\ EndsWith(toLowerCase(base), DotPdf) => r = base
            /\ ~EndsWith(toLowerCase(base), DotPdf) => r = base \o DotPdf
            /\ pure.sanitize => \A k \in 1..Len(r) : r[k] \notin ReservedChars

\* the template "{date}_{merchant}_{amount}" on 2024-01-05, Acme, 42.5 has
\* given "2024-01-05_Acme_42.5.pdf"
C22_Witness ==
    /\ pure.fn = "finalName"
    /\ pure.pc = "returned"
    /\ pure.template = DefaultTemplate
    /\ pure.info = Some(ExampleInfo)
    /\ pure.sanitize
    /\ pure.result = Some(<<"2", "0", "2", "4", "-", "0", "1", "-", "0", "5", "_", "A", "c", "m", "e", "_", "4", "2", ".", "5", ".", "p", "d", "f">>)

\* C23: parseSafeJSON gives the same outcome on a payload inside a json code
\* fence with white space around it as on the payload alone; when the text
\* left after the stripping is not JSON the outcome is the parse error and no
\* value.
C23_FenceStripping ==
    /\ (pure.fn = "parseSafeJSON" /\ pure.pc = "again") => pure.again = pure.result
    /\ (pure.fn = "parseSafeJSON" /\ pure.pc # "call") =>
          LET r == Get(pure.result)
              stripped == trim(ReplaceFences(Fenced(pure.text, pure.gap, pure.pad), 1))
          IN  /\ r.threw <=> ~JSONParse(stripped).ok
              /\ r.threw => r.message = ParseErrorMessage /\ r.value = <<>>
              /\ JSONParse(pure.text).ok /\ ~Contains(pure.text, Fence)
                   => ~r.threw /\ r.value = JSONParse(pure.text).value

\* the payload {} inside a fence with line breaks and outer spaces, and alone,
\* has parsed to the same object
C23_Witness ==
    /\ pure.fn = "parseSafeJSON"
    /\ pure.pc = "again"
    /\ pure.text = <<"{", "}">>
    /\ pure.gap = <<"\n">>
    /\ pure.pad = <<" ">>
    /\ ~Get(pure.result).threw
    /\ Get(pure.result).kind = "object"
    /\ pure.again = pure.result

\* C24: while isProcessing is set, a step that is no step of processFiles
\* leaves the list of files as it is.
C24_SoleMutator ==
    [][(isProcessing /\ run' = run /\ hist'.runs = hist.runs) => files' = files]_vars

\* the step in which an invocation of processFiles is over: the loop has run
\* to its end, or it died on an index that holds no object
Ends == run'.pc \in {"idle", "crashed"} /\ (run.pc \notin {"idle", "crashed"}
                                               \/ hist'.runs # hist.runs)

\* the list the invocation taking the step was started on
StartList == IF run.pc = "idle" THEN files ELSE run.files

\* C25: an invocation of processFiles attempts every file that is Failed in
\* the list it was started on, once, and no file that is Completed in it; the
\* attempt sets the file to Processing without an error.
C25_Retry ==
    [][/\ Ends =>
            \A k \in 1..Len(StartList) :
                /\ (~StartList[k].undef /\ StartList[k].status = "error") =>
                      hist'.attempts[k] = 1
                /\ (~StartList[k].undef /\ StartList[k].status = "completed") =>
                      hist'.attempts[k] = 0
       /\ \A k \in 1..Len(hist'.attempts) :
            (IF hist'.runs # hist.runs THEN hist'.attempts[k] = 1
                                       ELSE hist'.attempts[k] # hist.attempts[k]) =>
                /\ files'[k].status = "processing"
                /\ files'[k].error = None]_vars

\* the log of the attempt in flight, by the call the run is waiting for
StageLog ==
    /\ run.pc = "convert" => hist.calls = <<>>
    /\ run.pc = "extract" => hist.calls = << <<"convert", "ok">> >>
    /\ run.pc \in StorageSteps =>
          /\ IsSome(run.extracted)
          /\ run.finalName = Some(FinalName(run.config, Get(run.extracted)))
          /\ Len(hist.calls) >= 3
          /\ Len(hist.calls) <= Len(WriteCalls)
          /\ hist.calls = SubSeq(WriteCalls, 1, Len(hist.calls))
          /\ hist.calls \o << <<run.pc, "ok">> >>
                \in {SubSeq(WriteCalls, 1, n) : n \in 1..Len(WriteCalls)}
                    \cup {WriteCalls \o << <<"removeEntry", "ok">> >>}

\* the step that records the outcome of the attempt in flight
Completes == run.pc \notin {"idle", "crashed"} /\ hist.outcome[run.i] = "none"
                /\ hist'.outcome[run.i] = "ok"
Fails == run.pc \notin {"idle", "crashed"} /\ hist.outcome[run.i] = "none"
            /\ hist'.outcome[run.i] = "fail"

\* C26: extraction is called only after rasterization has returned, the write
\* steps only after extraction has returned and the name is computed, each in
\* the order of the commit; the file is marked Completed only when the commit,
\* where there is one, has returned; after a call that throws no later call of
\* the attempt is made.
C26_StageOrder ==
    /\ []StageLog
    /\ [][/\ Completes =>
               /\ files'[run.i].status = "completed"
               /\ \/ run.pc = "extract" /\ ~HasWriteCapability(run)
                  \/ run.pc = "close" /\ hist.calls = SubSeq(WriteCalls, 1, 6)
                        /\ run.finalName = Current.originalName
                  \/ run.pc = "removeEntry" /\ hist.calls = WriteCalls
          /\ Fails =>
               /\ files'[run.i].status = "error"
               /\ run'.pc \in {"idle", "crashed", "convert"}
               /\ run'.pc = "convert" => run'.i > run.i
               /\ dir' = dir
          /\ (run.pc \notin {"idle", "crashed"} /\ run'.pc \notin {"idle", "crashed"}
                /\ run'.i = run.i /\ hist'.runs = hist.runs) =>
               \A n \in 1..Len(hist'.calls) : hist'.calls[n][2] # "throw"]_vars

\* the run is about to remove the old entry: rasterization, extraction and the
\* four write steps have returned in this order
C26_Witness ==
    /\ run.pc = "removeEntry"
    /\ hist.calls = WriteCalls
    /\ files[run.i].status = "processing"

\* C27: a file that is Pending, Processing or Failed has its originalName as
\* newName and no extracted record; a step changes newName or extracted of a
\* file only when it marks the file Completed.
C27_ResultsOnCompletion ==
    /\ [](\A k \in 1..Len(files) :
            (~files[k].undef /\ files[k].status \in {"pending", "processing", "error"}) =>
                files[k].newName = files[k].originalName /\ files[k].extracted = None)
    /\ [][\A k \in 1..Len(files) :
            (k <= Len(files') /\ ~files[k].undef /\ files'[k].uid = files[k].uid
               /\ (files'[k].newName # files[k].newName
                     \/ files'[k].extracted # files[k].extracted)) =>
                /\ files[k].status # "completed"
                /\ files'[k].status = "completed"
                /\ IsSome(files'[k].extracted)]_vars

\* one file is Failed after its extraction had returned a record, another is
\* being processed again, and a third is Completed under a new name
C27_Witness ==
    \E k, j, n \in 1..Len(files) :
        /\ files[k].status = "error" /\ hist.outcome[k] = "fail"
        /\ files[k].newName = files[k].originalName /\ IsSome(files[k].originalName)
        /\ files[j].status = "processing" /\ hist.runs = 2
        /\ files[n].status = "completed" /\ files[n].newName # files[n].originalName

\* C28: while the run waits for convert or extract, isProcessing is set, the
\* file is Processing, and no later file has left the status it had when the
\* run started.
C28_NoTimeout ==
    run.pc \in {"convert", "extract"} =>
        /\ isProcessing
        /\ run.i <= Len(files)
        /\ files[run.i].status = "processing"
        /\ \A k \in (run.i + 1)..Len(run.files) :
              k <= Len(files) /\ files[k].status = run.files[k].status

\* the same statement for the states in which the list was not replaced
C28_NoTimeoutSameList ==
    (run.pc \in {"convert", "extract"} /\ SameList(run.files, files)) =>
        /\ isProcessing
        /\ files[run.i].status = "processing"
        /\ \A k \in (run.i + 1)..Len(run.files) : files[k].status = run.files[k].status

C30_ConfigSnapshot ==
    [][/\ (run.pc = "idle" /\ run'.pc # "idle") => run'.config = config
       /\ (run.pc # "idle" /\ run'.pc # "idle") => run'.config = run.config
       /\ (run.pc = "extract" /\ run' # run) =>
            /\ (Fails /\ run.config.provider \notin env) =>
                  files'[run.i].error = MissingKeyMessage(run.config.provider)
            /\ (Fails /\ run.config.provider = "glm" /\ "glm" \in env) =>
                  Head(Get(files'[run.i].error)) \in {GlmPrefix, "TypeError"}
            /\ run'.pc \in StorageSteps =>
                  run'.finalName = Some(FinalName(run.config, Get(run'.extracted)))
            /\ Completes =>
                  files'[run.i].newName
                      = Some(FinalName(run.config, Get(files'[run.i].extracted)))]_vars

\* during a run the configuration has been changed, and a file completed by
\* this run carries the name of the configuration the run started with, which
\* is not the name the changed configuration gives
C30_Witness ==
    /\ run.pc # "idle"
    /\ config # run.config
    /\ \E k \in 1..Len(files) :
          /\ k <= Len(hist.outcome)
          /\ hist.outcome[k] = "ok"
          /\ files[k].status = "completed"
          /\ files[k].newName = Some(FinalName(run.config, Get(files[k].extracted)))
          /\ files[k].newName # Some(FinalName(config, Get(files[k].extracted)))

\* a run is in flight exactly while isProcessing is set
RunIffProcessing == (run.pc # "idle") <=> isProcessing

====
